---- MODULE Spec2Model ----
(***************************************************************************)
(* Logiscool catch-up tracker (src/logiscool_app.py): two SQLite tables,   *)
(* students and catchups, the two POST handlers that write them and the    *)
(* five GET handlers that report on them.                                  *)
(*                                                                         *)
(* Text that the code only stores and copies (student names, lesson        *)
(* descriptors, fixed messages) is a TLA+ string.  Text that the code      *)
(* compares or parses (catch-up dates, month keys) is a sequence of        *)
(* one-character strings, compared bytewise as SQLite's BINARY collation   *)
(* does and parsed as datetime.strptime does.                              *)
(***************************************************************************)
EXTENDS Integers, Sequences, FiniteSets, TLC

VARIABLES
    students,        \* table students: rows [id, name] in rowid order
    catchups,        \* table catchups: rows [id, student_id, date, lesson_missed]
    seq_students,    \* sqlite_sequence row of students (AUTOINCREMENT)
    seq_catchups,    \* sqlite_sequence row of catchups (AUTOINCREMENT)
    response,        \* the response of the last completed request
    pc,              \* per worker thread: position inside a POST handler
    req,             \* per worker thread: the request it is serving
    lock             \* the thread holding SQLite's write lock, 0 if none

vars == <<students, catchups, seq_students, seq_catchups, response, pc, req, lock>>

store == <<students, catchups, seq_students, seq_catchups>>

conc == <<pc, req, lock>>

-----------------------------------------------------------------------------
(* Bounds and input sets                                                   *)

MaxCatchups == 3

MaxSeq == 2

NumThreads == 2

Names == {"Ana", "Bob"}

Lessons == {"L1", "L2"}

StudentIds == 1..MaxSeq

Threads == 1..NumThreads

\* Date texts a POST /catchups request may carry: two zero-padded ISO dates
\* in different months, a date without zero padding that strptime accepts
\* (text order puts it after October), and a date strptime rejects.  All the
\* years have four significant digits, for which %Y prints four digits.
D_FEB03 == <<"2","0","2","4","-","0","2","-","0","3">>

D_OCT01 == <<"2","0","2","4","-","1","0","-","0","1">>

D_FEB1_SHORT == <<"2","0","2","4","-","2","-","1">>

D_SLASH == <<"2","0","2","4","/","0","2","/","0","3">>

Dates == {D_FEB03, D_OCT01, D_FEB1_SHORT, D_SLASH}

-----------------------------------------------------------------------------
(* Text: byte order, decimal digits                                        *)

Ord(ch) ==
    CASE ch = " " -> 32
      [] ch = "-" -> 45
      [] ch = "/" -> 47
      [] ch = "0" -> 48
      [] ch = "1" -> 49
      [] ch = "2" -> 50
      [] ch = "3" -> 51
      [] ch = "4" -> 52
      [] ch = "5" -> 53
      [] ch = "6" -> 54
      [] ch = "7" -> 55
      [] ch = "8" -> 56
      [] ch = "9" -> 57

IsDigit(ch) == Ord(ch) >= 48 /\ Ord(ch) <= 57

DigitVal(ch) == Ord(ch) - 48

DigitChar(n) ==
    CASE n = 0 -> "0" [] n = 1 -> "1" [] n = 2 -> "2" [] n = 3 -> "3"
      [] n = 4 -> "4" [] n = 5 -> "5" [] n = 6 -> "6" [] n = 7 -> "7"
      [] n = 8 -> "8" [] n = 9 -> "9"

\* str(n) / "%d" % n for n >= 0: decimal digits, no padding.
RECURSIVE DecStr(_)
DecStr(n) == IF n < 10 THEN <<DigitChar(n)>>
             ELSE Append(DecStr(n \div 10), DigitChar(n % 10))

\* "%02d" % n, as strftime's %m.
Pad2(n) == IF n < 10 THEN <<"0", DigitChar(n)>> ELSE DecStr(n)

\* memcmp order of two texts (SQLite BINARY collation on TEXT): a < b.
RECURSIVE TextLess(_, _)
TextLess(a, b) ==
    IF b = <<>> THEN FALSE
    ELSE IF a = <<>> THEN TRUE
    ELSE IF Ord(Head(a)) # Ord(Head(b)) THEN Ord(Head(a)) < Ord(Head(b))
    ELSE TextLess(Tail(a), Tail(b))

-----------------------------------------------------------------------------
(* datetime.strptime / strftime as the handlers use them                   *)

CharIs(s, i, ch) == i >= 1 /\ i <= Len(s) /\ s[i] = ch

DigitAt(s, i) == i >= 1 /\ i <= Len(s) /\ IsDigit(s[i])

InRange(s, i, lo, hi) == DigitAt(s, i) /\ DigitVal(s[i]) >= lo /\ DigitVal(s[i]) <= hi

\* Directive %m, regex (1[0-2]|0[1-9]|[1-9]) tried at position i: the positions
\* just after each alternative that matches, in the regex's order of preference.
MonthAlts(s, i) ==
    (IF CharIs(s, i, "1") /\ InRange(s, i + 1, 0, 2) THEN <<i + 2>> ELSE <<>>)
    \o (IF CharIs(s, i, "0") /\ InRange(s, i + 1, 1, 9) THEN <<i + 2>> ELSE <<>>)
    \o (IF InRange(s, i, 1, 9) THEN <<i + 1>> ELSE <<>>)

\* Directive %d, regex (3[0-1]|[1-2]\d|0[1-9]|[1-9]| [1-9]) tried at position i.
DayAlts(s, i) ==
    (IF CharIs(s, i, "3") /\ InRange(s, i + 1, 0, 1) THEN <<i + 2>> ELSE <<>>)
    \o (IF InRange(s, i, 1, 2) /\ DigitAt(s, i + 1) THEN <<i + 2>> ELSE <<>>)
    \o (IF CharIs(s, i, "0") /\ InRange(s, i + 1, 1, 9) THEN <<i + 2>> ELSE <<>>)
    \o (IF InRange(s, i, 1, 9) THEN <<i + 1>> ELSE <<>>)
    \o (IF CharIs(s, i, " ") /\ InRange(s, i + 1, 1, 9) THEN <<i + 2>> ELSE <<>>)

\* int() of the digits of s in positions from..to (a blank counts as nothing).
RECURSIVE NumIn(_, _, _)
NumIn(s, from, to) ==
    IF to < from THEN 0
    ELSE IF s[to] = " " THEN NumIn(s, from, to - 1)
    ELSE 10 * NumIn(s, from, to - 1) + DigitVal(s[to])

IsLeap(y) == (y % 4 = 0) /\ ((y % 100 # 0) \/ (y % 400 = 0))

DaysInMonth(y, m) ==
    IF m = 2 THEN (IF IsLeap(y) THEN 29 ELSE 28)
    ELSE IF m \in {4, 6, 9, 11} THEN 30 ELSE 31

ParseError == [ok |-> FALSE, year |-> 0, month |-> 0, day |-> 0]

\* The date constructor's range check: ValueError when out of range.
MakeDate(y, m, d) ==
    IF y < 1 \/ d > DaysInMonth(y, m) THEN ParseError
    ELSE [ok |-> TRUE, year |-> y, month |-> m, day |-> d]

\* datetime.strptime(s, '%Y-%m-%d'): ok = FALSE stands for the ValueError.
StrptimeYmd(s) ==
    IF ~(DigitAt(s, 1) /\ DigitAt(s, 2) /\ DigitAt(s, 3) /\ DigitAt(s, 4)
         /\ CharIs(s, 5, "-"))
    THEN ParseError
    ELSE LET Rest(e) == CharIs(s, e, "-") /\ DayAlts(s, e + 1) # <<>>
             ms == SelectSeq(MonthAlts(s, 6), Rest)
         IN  IF ms = <<>> THEN ParseError
             ELSE LET mEnd == Head(ms)
                      dEnd == Head(DayAlts(s, mEnd + 1))
                  IN  IF dEnd # Len(s) + 1 THEN ParseError
                      ELSE MakeDate(NumIn(s, 1, 4), NumIn(s, 6, mEnd - 1),
                                    NumIn(s, mEnd + 1, dEnd - 1))

\* datetime.strptime(s, '%Y-%m'): the day defaults to 1.
StrptimeYm(s) ==
    IF ~(DigitAt(s, 1) /\ DigitAt(s, 2) /\ DigitAt(s, 3) /\ DigitAt(s, 4)
         /\ CharIs(s, 5, "-"))
    THEN ParseError
    ELSE LET ms == MonthAlts(s, 6)
         IN  IF ms = <<>> THEN ParseError
             ELSE IF Head(ms) # Len(s) + 1 THEN ParseError
             ELSE MakeDate(NumIn(s, 1, 4), NumIn(s, 6, Head(ms) - 1), 1)

\* strptime(date_str, '%Y-%m-%d') of every date text a request can carry,
\* evaluated once.
ParsedDates == [d \in Dates |-> StrptimeYmd(d)]

DateObj(date_str) == ParsedDates[date_str]

\* d.strftime('%Y-%m'): the C library prints the year unpadded.
StrftimeYm(d) == DecStr(d.year) \o <<"-">> \o Pad2(d.month)

MonthName(m) ==
    CASE m = 1 -> "January" [] m = 2 -> "February" [] m = 3 -> "March"
      [] m = 4 -> "April" [] m = 5 -> "May" [] m = 6 -> "June"
      [] m = 7 -> "July" [] m = 8 -> "August" [] m = 9 -> "September"
      [] m = 10 -> "October" [] m = 11 -> "November" [] m = 12 -> "December"

\* d.strftime('%B %Y'), kept as its two parts.
StrftimeBY(d) == <<MonthName(d.month), DecStr(d.year)>>

-----------------------------------------------------------------------------
(* The store: SQL statements as operators on the tables                    *)

MaxOf(S) == IF S = {} THEN 0 ELSE CHOOSE x \in S : \A y \in S : y <= x

RowIds(tbl) == {tbl[i].id : i \in 1..Len(tbl)}

\* AUTOINCREMENT: one more than the largest rowid ever handed out.
NewRowid(tbl, seq) == MaxOf(RowIds(tbl) \cup {seq}) + 1

\* Mutant: plain INSERT into a name column that is not UNIQUE.
InsertStudent_NoUnique(tbl, seq, name) ==
    LET id == NewRowid(tbl, seq)
    IN  [rows |-> Append(tbl, [id |-> id, name |-> name]), seq |-> id]

\* Mutant: INSERT OR REPLACE, which deletes the conflicting row and inserts
\* the name again under a new rowid.
InsertOrReplaceStudent(tbl, seq, name) ==
    LET id == NewRowid(tbl, seq)
    IN  [rows |-> Append(SelectSeq(tbl, LAMBDA r : r.name # name),
                         [id |-> id, name |-> name]),
         seq |-> id]

\* INSERT OR IGNORE INTO students (name) VALUES (?), name TEXT UNIQUE.
\* The rowid is drawn before the UNIQUE check, so an ignored insert still
\* advances sqlite_sequence.
InsertOrIgnoreStudent(tbl, seq, name) ==
    LET id == NewRowid(tbl, seq)
    IN  IF \E i \in 1..Len(tbl) : tbl[i].name = name
        THEN [rows |-> tbl, seq |-> id]
        ELSE [rows |-> Append(tbl, [id |-> id, name |-> name]), seq |-> id]

\* Mutant: the foreign key enforced; an insert for a missing student is lost.
InsertCatchup_ForeignKey(tbl, seq, sid, date, lesson) ==
    LET id == NewRowid(tbl, seq)
    IN  IF \E i \in 1..Len(students) : students[i].id = sid
        THEN [rows |-> Append(tbl, [id |-> id, student_id |-> sid, date |-> date,
                                    lesson_missed |-> lesson]),
              seq |-> id]
        ELSE [rows |-> tbl, seq |-> seq]

\* INSERT INTO catchups (student_id, date, lesson_missed) VALUES (?, ?, ?).
\* The FOREIGN KEY clause is declared but foreign_keys is off on the connection.
InsertCatchup(tbl, seq, sid, date, lesson) ==
    LET id == NewRowid(tbl, seq)
    IN  [rows |-> Append(tbl, [id |-> id, student_id |-> sid, date |-> date,
                               lesson_missed |-> lesson]),
         seq |-> id]

\* SELECT id FROM students WHERE name=?  then fetchone(): <<>> stands for None.
SelectStudentId(name) ==
    LET hit == SelectSeq(students, LAMBDA r : r.name = name)
    IN  IF hit = <<>> THEN <<>> ELSE <<hit[1].id>>

\* Mutant: ORDER BY c.date DESC.
InsertByDate_Descending(sorted, r) ==
    LET k == Cardinality({i \in 1..Len(sorted) : ~TextLess(sorted[i].date, r.date)})
    IN  SubSeq(sorted, 1, k) \o <<r>> \o SubSeq(sorted, k + 1, Len(sorted))

\* Stable insertion of row r into rows sorted by date text.
InsertByDate(sorted, r) ==
    LET k == Cardinality({i \in 1..Len(sorted) : ~TextLess(r.date, sorted[i].date)})
    IN  SubSeq(sorted, 1, k) \o <<r>> \o SubSeq(sorted, k + 1, Len(sorted))

RECURSIVE OrderByDate(_)
OrderByDate(rows) ==
    IF rows = <<>> THEN <<>>
    ELSE InsertByDate(OrderByDate(SubSeq(rows, 1, Len(rows) - 1)), rows[Len(rows)])

\* Mutant: the same query with ORDER BY date.
SelectCatchupsOf_ByDate(sid) ==
    LET hit == OrderByDate(SelectSeq(catchups, LAMBDA r : r.student_id = sid))
    IN  [i \in 1..Len(hit) |-> <<hit[i].date, hit[i].lesson_missed>>]

\* SELECT date, lesson_missed FROM catchups WHERE student_id=?  (table scan,
\* rowid order).
SelectCatchupsOf(sid) ==
    LET hit == SelectSeq(catchups, LAMBDA r : r.student_id = sid)
    IN  [i \in 1..Len(hit) |-> <<hit[i].date, hit[i].lesson_missed>>]

\* SELECT s.name, c.date, c.student_id, c.lesson_missed FROM students s
\* JOIN catchups c ON s.id = c.student_id ORDER BY c.date: catchups is scanned
\* in rowid order, students looked up by primary key, the result sorted.
\* Mutant: students LEFT JOINed to catchups, a catch-up without a student kept
\* with a NULL name.
RECURSIVE JoinScan_LeftJoin(_)
JoinScan_LeftJoin(cs) ==
    IF cs = <<>> THEN <<>>
    ELSE LET c == cs[Len(cs)]
             ss == SelectSeq(students, LAMBDA r : r.id = c.student_id)
         IN  JoinScan_LeftJoin(SubSeq(cs, 1, Len(cs) - 1))
             \o (IF ss = <<>>
                 THEN <<[name |-> "NULL", date |-> c.date,
                         student_id |-> c.student_id, lesson_missed |-> c.lesson_missed]>>
                 ELSE [i \in 1..Len(ss) |->
                         [name |-> ss[i].name, date |-> c.date,
                          student_id |-> c.student_id, lesson_missed |-> c.lesson_missed]])

RECURSIVE JoinScan(_)
JoinScan(cs) ==
    IF cs = <<>> THEN <<>>
    ELSE LET c == cs[Len(cs)]
             ss == SelectSeq(students, LAMBDA r : r.id = c.student_id)
         IN  JoinScan(SubSeq(cs, 1, Len(cs) - 1))
             \o [i \in 1..Len(ss) |->
                   [name |-> ss[i].name, date |-> c.date,
                    student_id |-> c.student_id, lesson_missed |-> c.lesson_missed]]

\* Mutant: the join without ORDER BY.
SelectAllJoined_Unordered == JoinScan(catchups)

SelectAllJoined == OrderByDate(JoinScan(catchups))

-----------------------------------------------------------------------------
(* Responses                                                               *)

Resp(route, arg, status, media, body) ==
    [route |-> route, arg |-> arg, status |-> status, media |-> media, body |-> body]

\* An exception that leaves a handler: the framework answers 500.
ServerError(route, arg) == Resp(route, arg, 500, "text/plain", "Internal Server Error")

NoResponse == Resp("none", "", 0, "", "")

NoRequest == [name |-> "", txn |-> <<>>]

-----------------------------------------------------------------------------
(* GET /catchups/by_name/{student_name}                                    *)

\* Mutant: the free allowance off by one.
ChargeByName_ThreeFree(i) == IF i <= 3 THEN "Free" ELSE "Charge"

ChargeByName(i) == IF i <= 2 THEN "Free" ELSE "Charge"

\* Mutant: the rows listed newest first.
ByNameResult_NewestFirst(data) ==
    [i \in 1..Len(data) |->
        [catchup_no |-> i, date |-> data[Len(data) + 1 - i][1],
         lesson_missed |-> data[Len(data) + 1 - i][2], charge |-> ChargeByName(i)]]

ByNameResult(data) ==
    [i \in 1..Len(data) |->
        [catchup_no |-> i, date |-> data[i][1], lesson_missed |-> data[i][2],
         charge |-> ChargeByName(i)]]

\* Mutant: an unknown name answered 404 instead of an empty list.
ListCatchupsByName_NotFound(student_name) ==
    LET student_id == SelectStudentId(student_name)
    IN  IF student_id = <<>>
        THEN Resp("by_name", student_name, 404, "application/json",
                  [detail |-> "Student not found"])
        ELSE Resp("by_name", student_name, 200, "application/json",
                  ByNameResult(SelectCatchupsOf(student_id[1])))

ListCatchupsByName(student_name) ==
    LET student_id == SelectStudentId(student_name)
    IN  IF student_id = <<>>
        THEN Resp("by_name", student_name, 200, "application/json", <<>>)
        ELSE Resp("by_name", student_name, 200, "application/json",
                  ByNameResult(SelectCatchupsOf(student_id[1])))

-----------------------------------------------------------------------------
(* GET /catchups/all                                                       *)

\* The loops of lines 112-115 and 168-170 raise ValueError at the first row
\* whose date strptime rejects.
AllDatesParse(rows) == \A i \in 1..Len(rows) : DateObj(rows[i].date).ok

\* Mutant: the key cut from the text (date_str[:7]) instead of formatted
\* from the parsed date.
MonthKeyOf_Slice(date_str) == SubSeq(date_str, 1, 7)

MonthKeyOf(date_str) == StrftimeYm(DateObj(date_str))

\* defaultdict(list) filled row by row: a dict keeps its keys in the order
\* they were first inserted.  A dict is a sequence of [key, entries].
RECURSIVE GroupByMonth(_)
GroupByMonth(rows) ==
    IF rows = <<>> THEN <<>>
    ELSE LET g == GroupByMonth(SubSeq(rows, 1, Len(rows) - 1))
             r == rows[Len(rows)]
             k == MonthKeyOf(r.date)
         IN  IF \E i \in 1..Len(g) : g[i].key = k
             THEN [i \in 1..Len(g) |->
                     IF g[i].key = k
                     THEN [key |-> k, entries |-> Append(g[i].entries, r)]
                     ELSE g[i]]
             ELSE Append(g, [key |-> k, entries |-> <<r>>])

\* Mutant: defensive parsing, rows whose date does not parse are skipped.
ListAllCatchups_SkipBadDates ==
    Resp("all", "", 200, "application/json",
         GroupByMonth(SelectSeq(SelectAllJoined, LAMBDA r : DateObj(r.date).ok)))

ListAllCatchups ==
    LET all_catchups == SelectAllJoined
    IN  IF ~AllDatesParse(all_catchups) THEN ServerError("all", "")
        ELSE Resp("all", "", 200, "application/json", GroupByMonth(all_catchups))

-----------------------------------------------------------------------------
(* GET /catchups/download/by_name/{student_name}                           *)

\* Mutant: the free allowance off by one in the download only.
ChargeStatusByName_OneFree(i) == IF i < 2 THEN "Free" ELSE "Charge"

ChargeStatusByName(i) == IF i <= 2 THEN "Free" ELSE "Charge"

\* The rows handed to csv.writer; a number is written as its decimal text.
ByNameCsv(student_name, data) ==
    << <<"Catch-up Tracker Report for ", student_name>>,
       <<"Catch-up Number", "Date", "Lesson Missed", "Status">> >>
    \o [i \in 1..Len(data) |->
          <<DecStr(i), data[i][1], data[i][2], ChargeStatusByName(i)>>]

\* Mutant: the not-found text also for a student without catch-ups.
DownloadCatchupsByName_EmptyIsNotFound(student_name) ==
    LET student_id == SelectStudentId(student_name)
    IN  IF student_id = <<>> \/ SelectCatchupsOf(student_id[1]) = <<>>
        THEN Resp("download_by_name", student_name, 200, "text/plain",
                  "Student not found.")
        ELSE Resp("download_by_name", student_name, 200, "text/csv",
                  ByNameCsv(student_name, SelectCatchupsOf(student_id[1])))

DownloadCatchupsByName(student_name) ==
    LET student_id == SelectStudentId(student_name)
    IN  IF student_id = <<>>
        THEN Resp("download_by_name", student_name, 200, "text/plain",
                  "Student not found.")
        ELSE Resp("download_by_name", student_name, 200, "text/csv",
                  ByNameCsv(student_name, SelectCatchupsOf(student_id[1])))

-----------------------------------------------------------------------------
(* GET /catchups/download/all                                              *)

\* Mutant: the free allowance off by one.
ChargeStatusAll_OneFree(count) == IF count < 2 THEN "Free" ELSE "Charge"

ChargeStatusAll(count) == IF count <= 2 THEN "Free" ELSE "Charge"

\* Mutant: one counter per month shared by all students.
CountInMonth_AllStudents(entries, i) == i

\* student_catchup_count[student_name] after the i-th entry of a month.
CountInMonth(entries, i) ==
    Cardinality({j \in 1..i : entries[j].name = entries[i].name})

MonthSection(group) ==
    << <<"Month: ">> \o StrftimeBY(StrptimeYm(group.key)),
       <<"Student Name", "Catch-up Date", "Lesson Missed", "Status">> >>
    \o [i \in 1..Len(group.entries) |->
          <<group.entries[i].name, group.entries[i].date,
            group.entries[i].lesson_missed,
            ChargeStatusAll(CountInMonth(group.entries, i))>>]
    \o << <<>> >>

RECURSIVE MonthSections(_)
MonthSections(groups) ==
    IF groups = <<>> THEN <<>>
    ELSE MonthSection(groups[1]) \o MonthSections(Tail(groups))

DownloadAllCatchups ==
    LET data == SelectAllJoined
    IN  IF ~AllDatesParse(data) THEN ServerError("download_all", "")
        ELSE LET monthly_data == GroupByMonth(data)
             IN  IF \E i \in 1..Len(monthly_data) : ~StrptimeYm(monthly_data[i].key).ok
                 THEN ServerError("download_all", "")
                 ELSE Resp("download_all", "", 200, "text/csv",
                           << <<"Catch-up Tracker - Full Report">>, <<>> >>
                           \o MonthSections(monthly_data))

-----------------------------------------------------------------------------
(* Initial state: init_db() on a fresh database file                       *)

Init ==
    /\ students = <<>>
    /\ catchups = <<>>
    /\ seq_students = 0
    /\ seq_catchups = 0
    /\ response = NoResponse
    /\ pc = [t \in Threads |-> "idle"]
    /\ req = [t \in Threads |-> NoRequest]
    /\ lock = 0

-----------------------------------------------------------------------------
(* Handlers, one request at a time                                         *)

StudentAdded(name) ==
    Resp("add_student", name, 200, "application/json", [message |-> "Student added"])

CatchupRecorded(sid, date, lesson) ==
    Resp("add_catchup", <<sid, date, lesson>>, 200, "application/json",
         [message |-> "Catch-up recorded"])

\* POST /students
add_student(name) ==
    /\ NewRowid(students, seq_students) <= MaxSeq
    /\ LET r == InsertOrIgnoreStudent(students, seq_students, name)
       IN  /\ students' = r.rows
           /\ seq_students' = r.seq
    /\ response' = StudentAdded(name)
    /\ UNCHANGED <<catchups, seq_catchups, conc>>

\* GET /students
list_students ==
    /\ response' = Resp("list_students", "", 200, "application/json", students)
    /\ UNCHANGED <<store, conc>>

\* POST /catchups
add_catchup(sid, date, lesson) ==
    /\ Len(catchups) < MaxCatchups
    /\ LET r == InsertCatchup(catchups, seq_catchups, sid, date, lesson)
       IN  /\ catchups' = r.rows
           /\ seq_catchups' = r.seq
    /\ response' = CatchupRecorded(sid, date, lesson)
    /\ UNCHANGED <<students, seq_students, conc>>

list_catchups_by_name(student_name) ==
    /\ response' = ListCatchupsByName(student_name)
    /\ UNCHANGED <<store, conc>>

list_all_catchups ==
    /\ response' = ListAllCatchups
    /\ UNCHANGED <<store, conc>>

download_catchups_by_name(student_name) ==
    /\ response' = DownloadCatchupsByName(student_name)
    /\ UNCHANGED <<store, conc>>

download_all_catchups ==
    /\ response' = DownloadAllCatchups
    /\ UNCHANGED <<store, conc>>

Next ==
    \/ \E name \in Names : add_student(name)
    \/ list_students
    \/ \E sid \in StudentIds, date \in Dates, lesson \in Lessons :
          add_catchup(sid, date, lesson)
    \/ \E name \in Names : list_catchups_by_name(name)
    \/ list_all_catchups
    \/ \E name \in Names : download_catchups_by_name(name)
    \/ download_all_catchups

Spec == Init /\ [][Next]_vars

-----------------------------------------------------------------------------
(* POST /students served by several worker threads at once.  Each request  *)
(* has its own connection; execute() opens a transaction and runs the      *)
(* INSERT under SQLite's write lock, commit() publishes it and releases    *)
(* the lock.  A reader sees only what has been committed.                  *)

\* Lines 55-56: the request arrives and opens its connection.
ConnectAddStudent(t, name) ==
    /\ pc[t] = "idle"
    /\ pc' = [pc EXCEPT ![t] = "connected"]
    /\ req' = [req EXCEPT ![t] = [name |-> name, txn |-> <<>>]]
    /\ UNCHANGED <<store, response, lock>>

\* Line 57: execute.  The statement takes the write lock and sees the
\* committed table; its effect stays in the connection's transaction.
ExecuteAddStudent(t) ==
    /\ pc[t] = "connected"
    /\ lock = 0
    /\ NewRowid(students, seq_students) <= MaxSeq
    /\ lock' = t
    /\ pc' = [pc EXCEPT ![t] = "executed"]
    /\ req' = [req EXCEPT ![t].txn =
                 InsertOrIgnoreStudent(students, seq_students, req[t].name)]
    /\ UNCHANGED <<store, response>>

\* Line 57 while another connection holds the write lock until the busy
\* timeout expires: sqlite3.OperationalError, nothing is written.
BusyAddStudent(t) ==
    /\ pc[t] = "connected"
    /\ lock # 0
    /\ pc' = [pc EXCEPT ![t] = "idle"]
    /\ req' = [req EXCEPT ![t] = NoRequest]
    /\ response' = ServerError("add_student", req[t].name)
    /\ UNCHANGED <<store, lock>>

\* Lines 58-59: commit publishes the transaction and releases the lock.
CommitAddStudent(t) ==
    /\ pc[t] = "executed"
    /\ lock = t
    /\ students' = req[t].txn.rows
    /\ seq_students' = req[t].txn.seq
    /\ lock' = 0
    /\ pc' = [pc EXCEPT ![t] = "committed"]
    /\ UNCHANGED <<catchups, seq_catchups, req, response>>

\* Line 60: the confirmation is returned.
ReturnAddStudent(t) ==
    /\ pc[t] = "committed"
    /\ pc' = [pc EXCEPT ![t] = "idle"]
    /\ req' = [req EXCEPT ![t] = NoRequest]
    /\ response' = StudentAdded(req[t].name)
    /\ UNCHANGED <<store, lock>>

NextConc ==
    \/ \E t \in Threads, name \in Names : ConnectAddStudent(t, name)
    \/ \E t \in Threads : ExecuteAddStudent(t)
    \/ \E t \in Threads : BusyAddStudent(t)
    \/ \E t \in Threads : CommitAddStudent(t)
    \/ \E t \in Threads : ReturnAddStudent(t)
    \/ list_students

SpecConc == Init /\ [][NextConc]_vars

-----------------------------------------------------------------------------
(* Properties                                                              *)

\* The rows of catchups that belong to student id sid.
OwnedBy(sid) == {k \in 1..Len(catchups) : catchups[k].student_id = sid}

\* The position of catchups[k] among its student's catch-ups in creation
\* order (catch-up ids grow with creation).
CreationRank(k) ==
    Cardinality({j \in OwnedBy(catchups[k].student_id) : catchups[j].id <= catchups[k].id})

StudentsNamed(name) == {s \in 1..Len(students) : students[s].name = name}

\* C1: in the by-student report, the N-th catch-up recorded for the student
\* (lifetime count, whatever its date or month) is Free when N <= 2 and
\* Charge when N >= 3.
C1_TierByLifetimeCount ==
    response.route = "by_name" =>
        \A s \in StudentsNamed(response.arg) : \A k \in OwnedBy(students[s].id) :
            LET N == CreationRank(k)
            IN  /\ N <= Len(response.body)
                /\ response.body[N].charge = (IF N <= 2 THEN "Free" ELSE "Charge")

\* C1 witness: a student's third catch-up is reported Charge although it is
\* the first one of its month.
C1_Witness ==
    /\ response.route = "by_name"
    /\ Len(response.body) = 3
    /\ response.body[1].date = D_FEB03 /\ response.body[1].charge = "Free"
    /\ response.body[2].date = D_FEB03 /\ response.body[2].charge = "Free"
    /\ response.body[3].date = D_OCT01 /\ response.body[3].charge = "Charge"

\* C5: the by-student report numbers the student's catch-ups 1..N in creation
\* order, not date order: row i carries the date and lesson of the i-th
\* catch-up recorded for the student.
C5_SequenceInCreationOrder ==
    response.route = "by_name" =>
        \A s \in StudentsNamed(response.arg) :
            /\ Len(response.body) = Cardinality(OwnedBy(students[s].id))
            /\ \A i \in 1..Len(response.body) : response.body[i].catchup_no = i
            /\ \A k \in OwnedBy(students[s].id) :
                   /\ response.body[CreationRank(k)].date = catchups[k].date
                   /\ response.body[CreationRank(k)].lesson_missed = catchups[k].lesson_missed

\* C5 witness: the catch-up recorded second has the earlier date and is
\* still row 2.
C5_Witness ==
    /\ response.route = "by_name"
    /\ Len(response.body) = 2
    /\ response.body[1].date = D_OCT01 /\ response.body[1].lesson_missed = "L1"
    /\ response.body[2].date = D_FEB03 /\ response.body[2].lesson_missed = "L2"
    /\ TextLess(response.body[2].date, response.body[1].date)

IsDataRow(row) == Len(row) = 4 /\ row[4] \in {"Free", "Charge"}

IsMonthRow(row) == Len(row) = 3 /\ row[1] = "Month: "

\* The index of the month title row that opens the section row i is in.
SectionOf(body, i) == MaxOf({j \in 1..i : IsMonthRow(body[j])})

\* The calendar month of a date that parses.
CalMonth(date) == <<DateObj(date).year, DateObj(date).month>>

C3_CreateStudentIdempotent ==
    [][response'.route = "add_student" =>
          /\ response'.status = 200
          /\ response'.body = [message |-> "Student added"]
          /\ Cardinality({s \in 1..Len(students') : students'[s].name = response'.arg}) = 1
          /\ (StudentsNamed(response'.arg) # {} => students' = students)
          /\ Len(students') >= Len(students)
          /\ \A s \in 1..Len(students) : students'[s] = students[s]
          /\ catchups' = catchups]_vars

\* C3 witness: a second POST /students for an existing name has been served
\* (the insert was ignored: the sequence ran ahead of the table).
C3_Witness ==
    /\ response.route = "add_student"
    /\ Len(students) = 1
    /\ students[1].name = response.arg
    /\ seq_students = 2

\* C4: no two student records share a name and no two share an identifier,
\* whatever the interleaving of POST /students requests.
C4_StudentsUnique ==
    \A i, j \in 1..Len(students) :
        i # j => students[i].name # students[j].name /\ students[i].id # students[j].id

\* C4 witness: two requests for the same name are in flight; the first has
\* committed its insert and the second has executed its own on top of it.
C4_Witness ==
    /\ pc[1] = "committed" /\ pc[2] = "executed"
    /\ req[1].name = req[2].name
    /\ Len(students) = 1 /\ students[1].name = req[1].name
    /\ req[2].txn.rows = students

\* C6: the by-student report for a name that matches no student, or a
\* student without catch-ups, is an empty list with no error, and the
\* request leaves the store as it was.
C6_EmptyReportNotError ==
    [][(/\ response'.route = "by_name"
        /\ \A s \in StudentsNamed(response'.arg) : OwnedBy(students[s].id) = {}) =>
          /\ response'.status = 200
          /\ response'.media = "application/json"
          /\ response'.body = <<>>
          /\ store' = store]_vars

\* C6 witness: an empty report for a registered student while another
\* identifier has catch-ups.
C6_Witness ==
    /\ response.route = "by_name"
    /\ response.body = <<>>
    /\ StudentsNamed(response.arg) # {}
    /\ catchups # <<>>

\* C7: the by-student download answers 200 text/plain "Student not found."
\* for a name that matches no student, and a CSV (title row, header row,
\* then the data rows) for a name that matches one, catch-ups or not.
C7_DownloadNotFoundIsPlainText ==
    response.route = "download_by_name" =>
        /\ response.status = 200
        /\ StudentsNamed(response.arg) = {} =>
              /\ response.media = "text/plain"
              /\ response.body = "Student not found."
        /\ StudentsNamed(response.arg) # {} =>
              /\ response.media = "text/csv"
              /\ Len(response.body) >= 2
              /\ response.body[1] = <<"Catch-up Tracker Report for ", response.arg>>
              /\ response.body[2] = <<"Catch-up Number", "Date", "Lesson Missed", "Status">>

\* C7 witness: the download for a registered student without catch-ups is a
\* CSV of just the title and header rows.
C7_Witness ==
    /\ response.route = "download_by_name"
    /\ StudentsNamed(response.arg) # {}
    /\ response.media = "text/csv"
    /\ Len(response.body) = 2

\* C8: POST /catchups succeeds for any student_id, appends exactly one record
\* with the given student_id, date and lesson_missed, and changes neither the
\* students table nor an existing catch-up.
C8_CreateCatchUpUnconditional ==
    [][response'.route = "add_catchup" =>
          /\ response'.status = 200
          /\ Len(catchups') = Len(catchups) + 1
          /\ SubSeq(catchups', 1, Len(catchups)) = catchups
          /\ LET c == catchups'[Len(catchups')]
             IN  <<c.student_id, c.date, c.lesson_missed>> = response'.arg
          /\ students' = students
          /\ seq_students' = seq_students]_vars

\* C8 witness: a catch-up has been recorded for an identifier that no
\* student has.
C8_Witness ==
    /\ response.route = "add_catchup"
    /\ response.status = 200
    /\ \A s \in 1..Len(students) : students[s].id # response.arg[1]
    /\ catchups[Len(catchups)].student_id = response.arg[1]

\* The literal shape YYYY-MM-DD: four digits, two digits, two digits.
IsoForm(date) ==
    /\ Len(date) = 10
    /\ \A i \in {1, 2, 3, 4, 6, 7, 9, 10} : IsDigit(date[i])
    /\ date[5] = "-" /\ date[8] = "-"

HasStudent(k) == \E s \in 1..Len(students) : students[s].id = catchups[k].student_id

\* A catch-up of an existing student whose date is not of the shape YYYY-MM-DD.
NonIsoDateStored == \E k \in 1..Len(catchups) : HasStudent(k) /\ ~IsoForm(catchups[k].date)

\* A catch-up of an existing student whose date strptime rejects.
RejectedDateStored ==
    \E k \in 1..Len(catchups) : HasStudent(k) /\ ~DateObj(catchups[k].date).ok

\* C9 as claimed: once a date that is not YYYY-MM-DD is stored for an
\* existing student, the all-catch-ups report and download fail.
C9_Original ==
    (response.route \in {"all", "download_all"} /\ NonIsoDateStored) =>
        response.status = 500

\* C9 as amended: POST /catchups stores any date text without error; once a
\* date that strptime('%Y-%m-%d') rejects is stored for an existing student
\* it stays stored, the all-catch-ups report and download fail from then on,
\* and the by-student report and download still succeed; while no such date
\* is stored for an existing student the all-catch-ups report succeeds,
\* whatever the shape of the dates.
C9_RejectedDateFailsAllReports ==
    [][/\ response'.route = "add_catchup" =>
             /\ response'.status = 200
             /\ catchups'[Len(catchups')].date = response'.arg[2]
       /\ RejectedDateStored => RejectedDateStored'
       /\ (response'.route \in {"all", "download_all"} /\ RejectedDateStored) =>
             response'.status = 500
       /\ response'.route \in {"by_name", "download_by_name"} =>
             response'.status = 200
       /\ (response'.route = "all" /\ ~RejectedDateStored') =>
             response'.status = 200]_vars

\* C9 witness: the all-catch-ups download has failed on a stored date with
\* slashes.
C9_Witness ==
    /\ response.route = "download_all"
    /\ response.status = 500
    /\ \E k \in 1..Len(catchups) : HasStudent(k) /\ catchups[k].date = D_SLASH

\* <<year, month>> a before b.
ChronLess(a, b) == a[1] < b[1] \/ (a[1] = b[1] /\ a[2] < b[2])

\* Month groups in the order emitted are in chronological order: by key in
\* the JSON report, by the months of the data rows in the CSV.
GroupsChronological ==
    /\ response.route = "all" =>
          \A i, j \in 1..Len(response.body) :
              i < j => TextLess(response.body[i].key, response.body[j].key)
    /\ response.route = "download_all" =>
          LET b == response.body
          IN  \A i, j \in {r \in 1..Len(b) : IsDataRow(b[r])} :
                  (i < j /\ SectionOf(b, i) # SectionOf(b, j)) =>
                      ChronLess(CalMonth(b[i][2]), CalMonth(b[j][2]))

\* C10 as claimed: whenever every stored date parses, the month groups of
\* the all-catch-ups report and download are in chronological month order.
C10_Original ==
    (response.route \in {"all", "download_all"} /\ response.status = 200) =>
        GroupsChronological

\* C10 as amended: the month groups are in chronological month order
\* whenever every catch-up date of an existing student is a zero-padded
\* YYYY-MM-DD calendar date.
C10_IsoDatesGroupsChronological ==
    (/\ response.route \in {"all", "download_all"}
     /\ response.status = 200
     /\ ~NonIsoDateStored) =>
        GroupsChronological

\* C10 witness: October was recorded before February, both zero-padded, and
\* the download has two month sections.
C10_Witness ==
    /\ response.route = "download_all" /\ response.status = 200
    /\ ~NonIsoDateStored
    /\ Len(catchups) >= 2
    /\ HasStudent(1) /\ catchups[1].date = D_OCT01
    /\ HasStudent(2) /\ catchups[2].date = D_FEB03
    /\ Cardinality({i \in 1..Len(response.body) : IsMonthRow(response.body[i])}) = 2

\* The catch-ups of existing students with the given content.
JoinedWith(sid, date, lesson) ==
    {k \in 1..Len(catchups) : /\ HasStudent(k)
                              /\ catchups[k].student_id = sid
                              /\ catchups[k].date = date
                              /\ catchups[k].lesson_missed = lesson}

\* The <<group, position>> pairs of the JSON report that hold that content.
EntriesWith(groups, sid, date, lesson) ==
    {p \in {<<g, i>> : g \in 1..Len(groups), i \in 1..MaxCatchups} :
        /\ p[2] <= Len(groups[p[1]].entries)
        /\ groups[p[1]].entries[p[2]].student_id = sid
        /\ groups[p[1]].entries[p[2]].date = date
        /\ groups[p[1]].entries[p[2]].lesson_missed = lesson}

\* key is the text YYYY-MM of the calendar month of date.
IsMonthKeyOf(key, date) ==
    /\ Len(key) = 7
    /\ key[5] = "-"
    /\ \A i \in {1, 2, 3, 4, 6, 7} : IsDigit(key[i])
    /\ NumIn(key, 1, 4) = DateObj(date).year
    /\ NumIn(key, 6, 7) = DateObj(date).month

\* C11: when GET /catchups/all answers, its month groups partition the
\* catch-ups of existing students: each such catch-up is in exactly one
\* group (as many entries as catch-ups, content by content), every entry's
\* group key is the YYYY-MM of its date, keys are distinct, no group is empty.
C11_MonthGroupsPartition ==
    (response.route = "all" /\ response.status = 200) =>
        LET g == response.body
        IN  /\ \A a \in 1..Len(g) : Len(g[a].entries) >= 1
            /\ \A a, b \in 1..Len(g) : a # b => g[a].key # g[b].key
            /\ \A a \in 1..Len(g) : \A i \in 1..Len(g[a].entries) :
                   IsMonthKeyOf(g[a].key, g[a].entries[i].date)
            /\ \A sid \in StudentIds, date \in Dates, lesson \in Lessons :
                   Cardinality(EntriesWith(g, sid, date, lesson))
                       = Cardinality(JoinedWith(sid, date, lesson))

\* C11 witness: 2024-10-01 was recorded between 2024-02-03 and 2024-2-1; the
\* report has the two February dates in one group and October in another.
C11_Witness ==
    /\ response.route = "all" /\ response.status = 200
    /\ Len(catchups) = 3
    /\ catchups[1].date = D_FEB03 /\ catchups[2].date = D_OCT01
    /\ catchups[3].date = D_FEB1_SHORT
    /\ Len(response.body) = 2
    /\ Len(response.body[1].entries) = 2
    /\ Len(response.body[2].entries) = 1

\* C12: the by-student CSV of a registered student is one title row naming
\* the student, one header row, then one data row per row of the by-student
\* report, in the same order, with the same number (as decimal text), date,
\* lesson and tier.
C12_DownloadMirrorsReport ==
    (response.route = "download_by_name" /\ StudentsNamed(response.arg) # {}) =>
        LET csv == response.body
            report == ListCatchupsByName(response.arg).body
        IN  /\ response.media = "text/csv"
            /\ Len(csv) = Len(report) + 2
            /\ csv[1] = <<"Catch-up Tracker Report for ", response.arg>>
            /\ csv[2] = <<"Catch-up Number", "Date", "Lesson Missed", "Status">>
            /\ \A i \in 1..Len(report) :
                   csv[i + 2] = <<DecStr(report[i].catchup_no), report[i].date,
                                  report[i].lesson_missed, report[i].charge>>

\* C12 witness: a download with three data rows, the third one Charge.
C12_Witness ==
    /\ response.route = "download_by_name"
    /\ response.media = "text/csv"
    /\ Len(response.body) = 5
    /\ response.body[5][1] = <<"3">>
    /\ response.body[5][4] = "Charge"
    /\ response.body[3][3] # response.body[4][3]

\* C13: no step of the API updates or deletes a student or a catch-up (every
\* row of the store before the step is in the same place with the same
\* fields after it), and a step of a read route (GET /students, the two
\* reports, the two downloads) leaves the whole store unchanged.
C13_StoreAppendOnly ==
    [][ /\ Len(students') >= Len(students)
        /\ \A i \in 1..Len(students) : students'[i] = students[i]
        /\ Len(catchups') >= Len(catchups)
        /\ \A k \in 1..Len(catchups) : catchups'[k] = catchups[k]
        /\ response'.route \in {"list_students", "by_name", "all",
                                "download_by_name", "download_all"}
               => store' = store ]_vars

\* C13 witness: a download of the full report answered over a store holding
\* two students and three catch-ups.
C13_Witness ==
    /\ response.route = "download_all"
    /\ response.status = 200
    /\ Len(students) = 2
    /\ Len(catchups) = 3

\* Pairs of dates (earlier row, later row) of one month group: of the JSON
\* report, or of one month section of the CSV.
GroupDatePairs ==
    IF response.route = "all"
    THEN LET g == response.body
         IN  {<<g[a].entries[i].date, g[a].entries[j].date>> :
                <<a, i, j>> \in {t \in (1..Len(g)) \X (1..MaxCatchups) \X (1..MaxCatchups) :
                                    t[2] < t[3] /\ t[3] <= Len(g[t[1]].entries)}}
    ELSE LET b == response.body
         IN  {<<b[p[1]][2], b[p[2]][2]>> :
                p \in {q \in (1..Len(b)) \X (1..Len(b)) :
                          /\ q[1] < q[2]
                          /\ IsDataRow(b[q[1]]) /\ IsDataRow(b[q[2]])
                          /\ SectionOf(b, q[1]) = SectionOf(b, q[2])}}

\* Calendar date a is after calendar date b.
DateAfter(a, b) ==
    LET x == DateObj(a)
        y == DateObj(b)
    IN  \/ ChronLess(<<y.year, y.month>>, <<x.year, x.month>>)
        \/ (x.year = y.year /\ x.month = y.month /\ y.day < x.day)

\* C14 as claimed: within every month group of the all-catch-ups report and
\* download no row has a calendar date after that of a later row.
C14_Original ==
    (response.route \in {"all", "download_all"} /\ response.status = 200) =>
        \A p \in GroupDatePairs : ~DateAfter(p[1], p[2])

\* C14 as amended: within every month group of the all-catch-ups report and
\* download the rows are in non-decreasing order of the stored date text,
\* whatever the recording order and the students.
C14_GroupRowsInDateTextOrder ==
    (response.route \in {"all", "download_all"} /\ response.status = 200) =>
        \A p \in GroupDatePairs : ~TextLess(p[2], p[1])

\* C14 witness: a February catch-up of one student recorded before another
\* student's February catch-up with the smaller date text; the report lists
\* them in one group in the reverse of the recording order.
C14_Witness ==
    /\ response.route = "all" /\ response.status = 200
    /\ Len(catchups) >= 2
    /\ HasStudent(1) /\ HasStudent(2)
    /\ catchups[1].date = D_FEB1_SHORT /\ catchups[2].date = D_FEB03
    /\ catchups[1].student_id # catchups[2].student_id
    /\ Len(response.body) >= 1
    /\ Len(response.body[1].entries) >= 2
    /\ response.body[1].entries[1].date = D_FEB03
    /\ response.body[1].entries[2].date = D_FEB1_SHORT

\* C15: recording a further catch-up, for any student and with any date,
\* changes no row of any student's by-student report: the report before the
\* step is a prefix of the report after it (same numbers, dates, lessons and
\* tiers).
C15_ReportPrefixStable ==
    [][ response'.route = "add_catchup" =>
           \A name \in Names :
               LET old == ListCatchupsByName(name).body
                   new == ListCatchupsByName(name).body'
               IN  /\ Len(old) <= Len(new)
                   /\ \A i \in 1..Len(old) : new[i] = old[i] ]_vars

\* C15 witness: a catch-up dated before the two that Ana already has was
\* just recorded for her; it is the third row of her report.
C15_Witness ==
    /\ response.route = "add_catchup"
    /\ response.arg[2] = D_FEB03
    /\ StudentsNamed("Ana") # {}
    /\ LET r == ListCatchupsByName("Ana").body
       IN  /\ Len(r) = 3
           /\ r[1].date = D_OCT01 /\ r[2].date = D_OCT01 /\ r[3].date = D_FEB03
           /\ r[3].charge = "Charge"
    /\ catchups[Len(catchups)].date = D_FEB03

\* The catch-ups whose student_id is the id of a student with the given name.
CatchupsOfName(name) ==
    {k \in 1..Len(catchups) :
        \E s \in StudentsNamed(name) : students[s].id = catchups[k].student_id}

\* The rows of a by-student report or download are the catch-ups of the
\* named student, one row each, with their dates and lessons.
ByStudentShows(name, dates, lessons) ==
    /\ Len(dates) = Cardinality(CatchupsOfName(name))
    /\ \A d \in Dates, l \in Lessons :
           Cardinality({i \in 1..Len(dates) : dates[i] = d /\ lessons[i] = l})
             = Cardinality({k \in CatchupsOfName(name) :
                               catchups[k].date = d /\ catchups[k].lesson_missed = l})

\* A report in the response lists exactly the catch-ups whose student_id is
\* the id of a student in the store: a catch-up whose student_id no student
\* has is in none of them, and one whose student exists is in that
\* student's reports.
ReportShowsJoined ==
    /\ response.route = "by_name" =>
          LET b == response.body
          IN  ByStudentShows(response.arg, [i \in 1..Len(b) |-> b[i].date],
                             [i \in 1..Len(b) |-> b[i].lesson_missed])
    /\ (response.route = "download_by_name" /\ response.media = "text/csv") =>
          LET b == response.body
          IN  ByStudentShows(response.arg, [i \in 1..(Len(b) - 2) |-> b[i + 2][2]],
                             [i \in 1..(Len(b) - 2) |-> b[i + 2][3]])
    /\ (response.route = "all" /\ response.status = 200) =>
          \A sid \in StudentIds, d \in Dates, l \in Lessons :
              Cardinality(EntriesWith(response.body, sid, d, l))
                = IF \E s \in 1..Len(students) : students[s].id = sid
                  THEN Cardinality({k \in OwnedBy(sid) :
                                       catchups[k].date = d /\ catchups[k].lesson_missed = l})
                  ELSE 0
    /\ (response.route = "download_all" /\ response.status = 200) =>
          LET b == response.body
              rows == {i \in 1..Len(b) : IsDataRow(b[i])}
          IN  /\ Cardinality(rows) = Cardinality({k \in 1..Len(catchups) : HasStudent(k)})
              /\ \A name \in Names, d \in Dates, l \in Lessons :
                     Cardinality({i \in rows : b[i][1] = name /\ b[i][2] = d /\ b[i][3] = l})
                       = Cardinality({k \in CatchupsOfName(name) :
                                         catchups[k].date = d /\ catchups[k].lesson_missed = l})

\* The step creates a student.
CreatesStudent == response'.route = "add_student" /\ Len(students') > Len(students)

\* C16: a catch-up whose student_id no student has is in no report; it is in
\* the reports of a student exactly when a student with that id exists when
\* the report is made.  When a student is created with an id that catch-ups
\* recorded earlier refer to, those catch-ups were in no report before the
\* step and are in the new student's reports after it.
C16_OrphanShownOnlyWithStudent ==
    [][ /\ ReportShowsJoined'
        /\ CreatesStudent =>
              LET new == students'[Len(students')]
              IN  /\ \A name \in Names :
                         /\ CatchupsOfName(name) \cap OwnedBy(new.id) = {}
                         /\ Len(ListCatchupsByName(name).body)
                              = Cardinality(CatchupsOfName(name))
                  /\ \A name \in Names :
                         name = new.name =>
                             Len(ListCatchupsByName(name).body')
                               = Cardinality(OwnedBy(new.id)) ]_vars

\* C16 witness: Bob was just created with id 2, which two catch-ups recorded
\* before refer to; his by-student report now has these two rows, and the
\* catch-up recorded for Ana is not among them.
C16_Witness ==
    /\ response.route = "add_student" /\ response.arg = "Bob"
    /\ Len(students) = 2
    /\ students[2] = [id |-> 2, name |-> "Bob"]
    /\ seq_students = 2
    /\ Cardinality(OwnedBy(2)) = 2
    /\ Len(catchups) = 3
    /\ Len(ListCatchupsByName("Bob").body) = 2

\* The data rows of the all-catch-ups download for the student of that name.
DownloadRowsOf(name) ==
    {i \in 1..Len(response.body) :
        IsDataRow(response.body[i]) /\ response.body[i][1] = name}

\* C17: when the all-catch-ups download answers, it lists for every student
\* as many rows as the by-student report of that student does, and, summed
\* over the months, no more Charge rows than that report has.
C17_MonthlyChargesAtMostLifetime ==
    (response.route = "download_all" /\ response.status = 200) =>
        \A name \in Names :
            LET report == ListCatchupsByName(name).body
            IN  /\ Cardinality(DownloadRowsOf(name)) = Len(report)
                /\ Cardinality({i \in DownloadRowsOf(name) : response.body[i][4] = "Charge"})
                     <= Cardinality({i \in 1..Len(report) : report[i].charge = "Charge"})

\* C17 witness: Ana has three catch-ups in two months; the download charges
\* none of them, her by-student report charges the third.
C17_Witness ==
    /\ response.route = "download_all" /\ response.status = 200
    /\ Cardinality(DownloadRowsOf("Ana")) = 3
    /\ \A i \in DownloadRowsOf("Ana") : response.body[i][4] = "Free"
    /\ Len(ListCatchupsByName("Ana").body) = 3
    /\ ListCatchupsByName("Ana").body[3].charge = "Charge"

====
